---------------------------- MODULE Spec2Model ----------------------------
(***************************************************************************)
(* State-machine model of tutorials/simplicial/dist2Cycle_train.ipynb:     *)
(* the label split, the Dist2Cycle network (its constructor and forward),  *)
(* the optimizer construction and the training cell.                       *)
(*                                                                         *)
(* Numbers.  Tensors are matrices of integers (sequences of rows).         *)
(* Features are integers, weights and logits are in tenths, probabilities  *)
(* and losses in thousandths, printed accuracies in ten-thousandths.       *)
(* The two-class softmax is the clipped linear sigmoid of the logit        *)
(* difference, binary_cross_entropy_with_logits is its second-order        *)
(* expansion around 0 (its argument here is a probability in [0,1]), and   *)
(* Adam's normalised step is reduced to lr times the sign of the first     *)
(* moment.  The sizes 78 / 30 / 4 / 10 / 60 of the notebook are scaled     *)
(* down to the bounds below; every slice keeps its Python form.            *)
(***************************************************************************)
EXTENDS Integers, Sequences, FiniteSets, TLC

\* ------------------------------------------------------------------ bounds
NumEdges  == 4   \* rows of y_true, edges of the complex (78 in the notebook)
TrainLen  == 2   \* the 30 of y_true[:30]
TestLen   == 1   \* the 4 of y_true[-4:]
NLayers   == 2   \* n_layers (10 in the notebook)
MaxEpochs == 3   \* num_epochs ranges over 0..MaxEpochs (60 in the notebook)

\* ------------------------------------------------------- program constants
test_interval == 2
lr            == 4    \* 0.4, in tenths
Half          == 500  \* the 0.5 of torch.where(y_hat > 0.5, ...), in thousandths

Scale == 1000         \* fixed point of probabilities and losses
Ln2   == 693          \* log(2), in thousandths

\* --------------------------------------------------------- tensor algebra
Rows(M) == Len(M)
Cols(M) == IF Len(M) = 0 THEN 0 ELSE Len(M[1])

Zeros(r, c) == [i \in 1..r |-> [j \in 1..c |-> 0]]

RECURSIVE SumTo(_, _)
\* f(1) + ... + f(n), f a function on 1..n
SumTo(f, n) == IF n = 0 THEN 0 ELSE f[n] + SumTo(f, n - 1)

SumOver(f) == SumTo(f, Len(f))

MatMul(A, B) ==
    [i \in 1..Rows(A) |->
        [j \in 1..Cols(B) |->
            SumOver([k \in 1..Rows(B) |-> A[i][k] * B[k][j]])]]

Hadamard(A, B) ==
    [i \in 1..Rows(A) |-> [j \in 1..Cols(A) |-> A[i][j] * B[i][j]]]

Relu(M) ==
    [i \in 1..Rows(M) |-> [j \in 1..Cols(M) |-> IF M[i][j] > 0 THEN M[i][j] ELSE 0]]

Sgn(n) == IF n > 0 THEN 1 ELSE IF n < 0 THEN -1 ELSE 0

Clip(n, lo, hi) == IF n < lo THEN lo ELSE IF n > hi THEN hi ELSE n

Min(a, b) == IF a < b THEN a ELSE b

\* Python slices of a sequence of n rows, as the sets of 1-based row indices.
\* s[:k]
HeadIdx(n, k) == 1..Min(k, n)
\* s[-k:]  (k > 0)
TailIdx(n, k) == (IF k >= n THEN 1 ELSE n - k + 1)..n

\* the rows of s at the consecutive indices idx, as a sequence
Slice(s, idx) ==
    IF idx = {} THEN <<>>
    ELSE LET lo == CHOOSE i \in idx : \A j \in idx : i <= j
         IN  [i \in 1..Cardinality(idx) |-> s[lo + i - 1]]

\* ------------------------------------------------------------------ state
VARIABLES
    pc,            \* the statement the notebook executes next
    run,           \* which execution of the notebook this is
    seed,          \* the random generator's state when the model is constructed
    num_epochs,    \* num_epochs of the training cell
    epoch_i,       \* the loop variable of the training cell
    range_next,    \* the next value of the loop's range iterator (0: no iterator)
    dataset,       \* the simplicial complex: its node count and its edges
    incidence_1,   \* boundary matrix B1 of the complex, nodes x edges
    ld,            \* down-Laplacian of rank 1
    adjacency,     \* rank-1 adjacency of the complex, as passed to the model
    Linv,          \* pseudo-inverse of (down-Laplacian + identity)
    x_1e,          \* res = adjacency * Linv, the feature tensor
    y_true,        \* one-hot labels, one row per edge
    y_train,       \* y_true[:30]
    y_test,        \* y_true[-4:]
    linear,        \* model.linear: [weight, bias]
    layers,        \* model.layers: the Python list of Dist2CycleLayer weights
    registered,    \* the submodules registered with torch.nn.Module (model._modules)
    opt_params,    \* the parameters handed to torch.optim.Adam
    opt,           \* Adam's state: step count and the two moment estimates
    grad,          \* .grad of model.linear's parameters
    y_hat,         \* output of the training forward pass
    loss,          \* loss.item()
    epoch_loss,    \* the list epoch_loss
    accuracy,      \* train accuracy of the epoch
    y_hat_test,    \* output of the forward pass of the test block
    test_accuracy, \* test accuracy
    output,        \* the lines printed so far
    losses,        \* history: the losses printed by this execution
    prev_losses,   \* history: the losses printed by the previous execution
    epochs_seen,   \* history: the values epoch_i has taken in this execution
    n_forward,     \* history: forward passes of this execution
    n_step,        \* history: optimizer steps of this execution
    train_call,    \* history: the latest call of the model in the training step
    test_call      \* history: the latest call of the model in the test block

vars == <<pc, run, seed, num_epochs, epoch_i, range_next, dataset,
          incidence_1, ld, adjacency, Linv, x_1e,
          y_true, y_train, y_test, linear, layers, registered, opt_params,
          opt, grad, y_hat, loss, epoch_loss, accuracy, y_hat_test,
          test_accuracy, output, losses, prev_losses, epochs_seen,
          n_forward, n_step, train_call, test_call>>

dataVars  == <<dataset, incidence_1, ld, adjacency, Linv, x_1e, y_true,
               y_train, y_test>>
modelVars == <<linear, layers, registered, opt_params>>
histVars  == <<losses, prev_losses, epochs_seen, n_forward, n_step,
               train_call, test_call>>

\* ----------------------------------------------------------------- inputs
Seeds == 1..2

\* Rank-1 adjacencies of small complexes: edges in a path, edges in a cycle.
AdjPath ==
    [i \in 1..NumEdges |-> [j \in 1..NumEdges |->
        IF i - j = 1 \/ j - i = 1 THEN 1 ELSE 0]]
AdjCycle ==
    [i \in 1..NumEdges |-> [j \in 1..NumEdges |->
        IF i # j /\ (i - j) % NumEdges \in {1, NumEdges - 1} THEN 1 ELSE 0]]

\* Results of npla.pinv(ld + I): symmetric matrices, positive diagonal.
LinvA ==
    [i \in 1..NumEdges |-> [j \in 1..NumEdges |->
        IF i = j THEN 2 ELSE ((i + j) % 3) - 1]]
LinvB ==
    [i \in 1..NumEdges |-> [j \in 1..NumEdges |->
        IF i = j THEN 1 ELSE ((i * j) % 4) - 2]]

\* The edges of the two complexes, each edge the pair of its end nodes: a
\* path over NumEdges + 1 nodes and a cycle over NumEdges nodes.
PathEdges == [e \in 1..NumEdges |-> <<e, e + 1>>]
CycleEdges == [e \in 1..NumEdges |-> <<e, (e % NumEdges) + 1>>]

\* The complexes the notebook is run on: each gives its nodes and edges, its
\* adjacency and the entries of its pseudo-inverse.
Complexes ==
    {[nodes |-> NumEdges + 1, edges |-> PathEdges, adj |-> AdjPath, linv |-> LinvA],
     [nodes |-> NumEdges, edges |-> CycleEdges, adj |-> AdjCycle, linv |-> LinvB]}

\* dataset.incidence_matrix(rank=1): one row per node, one column per edge,
\* -1 at the edge's first node and 1 at its second
IncidenceMatrix(cx) ==
    [v \in 1..cx.nodes |-> [e \in 1..Len(cx.edges) |->
        IF cx.edges[e][1] = v THEN -1 ELSE IF cx.edges[e][2] = v THEN 1 ELSE 0]]

\* mutant: the Laplacian of rank 0, B1 . B1^T, one row per node
LaplacianOfNodes(B) ==
    [i \in 1..Rows(B) |-> [j \in 1..Rows(B) |->
        SumOver([e \in 1..Cols(B) |-> B[i][e] * B[j][e]])]]

\* dataset.down_laplacian_matrix(rank=1): B1^T . B1, one row per edge
DownLaplacian(B) ==
    [i \in 1..Cols(B) |-> [j \in 1..Cols(B) |->
        SumOver([v \in 1..Rows(B) |-> B[v][i] * B[v][j]])]]

\* ld + np.eye(ld.shape[0])
PlusEye(M) ==
    [i \in 1..Rows(M) |-> [j \in 1..Cols(M) |-> M[i][j] + (IF i = j THEN 1 ELSE 0)]]

\* npla.pinv(M): a matrix of the shape of M transposed.  Its entries are not
\* computed in integers: they are those of the complex's table, 0 outside it.
Pinv(M, entries) ==
    [i \in 1..Cols(M) |-> [j \in 1..Rows(M) |->
        IF i \in DOMAIN entries /\ j \in DOMAIN entries[i]
        THEN entries[i][j] ELSE 0]]

\* The claims compare two executions of the notebook.
Executions == {1, 2}

\* y, the 0/1 group labels of the rows
LabelVectors == [1..NumEdges -> {0, 1}]

\* ------------------------------------------------------------ label split
\* y_true = np.zeros((78, 2)); y_true[:, 0] = y; y_true[:, 1] = 1 - y
OneHot(y) == [i \in 1..NumEdges |-> <<y[i], 1 - y[i]>>]

\* the rows of y_true[:30], y_true having n rows
TrainIdx(n) == HeadIdx(n, TrainLen)
\* mutant: the test rows taken from the head of y_true
TestIdxFromHead(n) == HeadIdx(n, TestLen)

\* the rows of y_true[-4:], y_true having n rows
TestIdx(n) == TailIdx(n, TestLen)

\* y_train = y_true[:30]
YTrain(yt) == Slice(yt, TrainIdx(Len(yt)))
\* y_test = y_true[-4:]
YTest(yt) == Slice(yt, TestIdx(Len(yt)))

\* ------------------------------------------------------------ the network
channels_nodes == NumEdges

\* torch.nn.Linear(channels, 2): weight of shape [2, channels] and bias of
\* shape [2], drawn from the generator; tenths.
InitLinear(s) ==
    [weight |-> [c \in 1..2 |-> [k \in 1..channels_nodes |-> ((s + k + 2 * c) % 3) - 1]],
     bias   |-> [c \in 1..2 |-> ((s + c) % 3) - 1]]

\* Dist2CycleLayer(channels): one weight matrix Theta of shape
\* [channels, channels] per layer, drawn from the generator.
InitLayers(s) ==
    [l \in 1..NLayers |->
        [i \in 1..channels_nodes |-> [j \in 1..channels_nodes |->
            ((s + l + i + 2 * j) % 3) - 1]]]

\* Dist2CycleLayer.forward(x, Linv, adjacency): the messages weighted by the
\* Hadamard product of adjacency and pseudo-inverse, summed per destination,
\* multiplied by Theta, then the nonlinearity.
Dist2CycleLayer(theta, x, linv, adj) ==
    Relu(MatMul(MatMul(Hadamard(adj, linv), x), theta))

\* self.linear(x): x . weight^T + bias
Linear(lin, x) ==
    [i \in 1..Rows(x) |->
        [c \in 1..2 |->
            SumOver([k \in 1..Cols(x) |-> x[i][k] * lin.weight[c][k]]) + lin.bias[c]]]

\* mutant: torch.sigmoid(logits), each entry squashed on its own
SoftmaxElementwise(logits) ==
    [i \in 1..Rows(logits) |->
        [c \in 1..2 |-> Clip(Half + (Scale \div 40) * logits[i][c], 0, Scale)]]

\* torch.softmax(logits, dim=-1) for two classes: each entry is the sigmoid
\* of its logit minus the other one; slope 1/4 at 0, clipped to [0, 1].
Softmax(logits) ==
    [i \in 1..Rows(logits) |->
        [c \in 1..2 |->
            Clip(Half + (Scale \div 40) * (logits[i][c] - logits[i][3 - c]), 0, Scale)]]

\* Dist2Cycle.forward(x_1e, Linv, adjacency):
\*     for layer in self.layers: x_1 = layer(x_1e, Linv, adjacency)
\*     logits = self.linear(x_1e)
\*     return torch.softmax(logits, dim=-1)
\* Every layer is applied to x_1e; x_1, the last layer's result, is a local
\* that nothing reads.
ForwardX1(lys, x, linv, adj) ==
    IF Len(lys) = 0 THEN <<>>
    ELSE Dist2CycleLayer(lys[Len(lys)], x, linv, adj)

Forward(lin, lys, x, linv, adj) ==
    LET x_1    == ForwardX1(lys, x, linv, adj)
        logits == Linear(lin, x)
    IN  Softmax(logits)

\* torch.nn.Module.parameters(): the parameters of the registered submodules
ParamsOf(m) ==
    IF m = "linear"
    THEN {[mod |-> "linear", idx |-> 0, name |-> "weight"],
          [mod |-> "linear", idx |-> 0, name |-> "bias"]}
    ELSE {[mod |-> "layers", idx |-> l, name |-> "weight"] : l \in 1..NLayers}

Parameters(reg) == UNION {ParamsOf(m) : m \in reg}

\* Dist2Cycle.__init__: self.linear = Linear(...) registers "linear";
\* self.layers = layers assigns a plain list, which registers nothing.
RegisteredModules == {"linear"}

\* ---------------------------------------------------- loss and gradients
\* One element of binary_cross_entropy_with_logits(z, y), z a probability in
\* thousandths: z (1 - y) + log(1 + exp(-z)), the logarithm expanded to
\* log 2 - z/2 + z^2/8.
BceElem(z, y) == z * (1 - y) + Ln2 - (z \div 2) + ((z * z) \div (8 * Scale))

\* binary_cross_entropy_with_logits(input, target): the mean over all
\* elements of two tensors of the same shape
BceWithLogits(input, target) ==
    LET n == Len(target)
        rowsum == [i \in 1..n |->
                      BceElem(input[i][1], target[i][1]) + BceElem(input[i][2], target[i][2])]
    IN  SumOver(rowsum) \div (2 * n)

\* y_hat[: len(y_train)]
LossRows(yh, ytr) == HeadIdx(Len(yh), Len(ytr))

\* loss = binary_cross_entropy_with_logits(y_hat[: len(y_train)].float(), y_train.float())
Loss(yh, ytr) == BceWithLogits(Slice(yh, LossRows(yh, ytr)), ytr)

\* d loss / d z for one element: sigmoid(z) - y, sigmoid as in Softmax
BceGrad(z, y) == Half + (z \div 4) - Scale * y

\* d loss / d logits[i][c] for a row of the loss, up to the positive factors
\* of the mean and of the softmax slope; 0 where the softmax is saturated.
LogitGrad(zrow, yrow, c) ==
    IF zrow[c] = 0 \/ zrow[c] = Scale THEN 0
    ELSE (BceGrad(zrow[c], yrow[c]) - BceGrad(zrow[3 - c], yrow[3 - c]))

\* loss.backward(): the gradient of the loss with respect to linear.weight
\* and linear.bias.  The loss does not depend on any layer's weight.
Backward(yh, ytr, x) ==
    LET rows == LossRows(yh, ytr)
        n    == Cardinality(rows)
        dl   == [i \in 1..n |-> [c \in 1..2 |-> LogitGrad(yh[i], ytr[i], c)]]
    IN  [weight |-> [c \in 1..2 |-> [k \in 1..Cols(x) |->
                        SumOver([i \in 1..n |-> dl[i][c] * x[i][k]])]],
         bias   |-> [c \in 1..2 |-> SumOver([i \in 1..n |-> dl[i][c]])]]

ZeroGrad ==
    [weight |-> Zeros(2, channels_nodes), bias |-> [c \in 1..2 |-> 0]]

\* .grad accumulates: backward adds to what is stored
AddGrad(g, h) ==
    [weight |-> [c \in 1..2 |-> [k \in 1..channels_nodes |-> g.weight[c][k] + h.weight[c][k]]],
     bias   |-> [c \in 1..2 |-> g.bias[c] + h.bias[c]]]

\* ------------------------------------------------------------------- Adam
\* torch.optim.Adam(params, lr=0.4): fresh state
InitOpt == [step |-> 0, exp_avg |-> ZeroGrad, exp_avg_sq |-> ZeroGrad]

\* Adam's moments after one more step with gradient g.  exp_avg is kept
\* unnormalised (times 10^step, beta1 = 0.9); exp_avg_sq is the running sum
\* of squares.
AdamState(o, g) ==
    [step |-> o.step + 1,
     exp_avg |->
        [weight |-> [c \in 1..2 |-> [k \in 1..channels_nodes |->
                        9 * o.exp_avg.weight[c][k] + g.weight[c][k]]],
         bias   |-> [c \in 1..2 |-> 9 * o.exp_avg.bias[c] + g.bias[c]]],
     exp_avg_sq |->
        [weight |-> [c \in 1..2 |-> [k \in 1..channels_nodes |->
                        o.exp_avg_sq.weight[c][k] + g.weight[c][k] * g.weight[c][k]]],
         bias   |-> [c \in 1..2 |-> o.exp_avg_sq.bias[c] + g.bias[c] * g.bias[c]]]]

\* Adam's update of model.linear: each entry moves by lr against the sign of
\* its first moment.
AdamUpdate(lin, o) ==
    [weight |-> [c \in 1..2 |-> [k \in 1..channels_nodes |->
                    lin.weight[c][k] - lr * Sgn(o.exp_avg.weight[c][k])]],
     bias   |-> [c \in 1..2 |-> lin.bias[c] - lr * Sgn(o.exp_avg.bias[c])]]

\* --------------------------------------------------------------- accuracy
\* torch.where(y_hat > 0.5, torch.tensor(1), torch.tensor(0))
Threshold(yh) ==
    [i \in 1..Rows(yh) |-> [c \in 1..2 |-> IF yh[i][c] > Half THEN 1 ELSE 0]]

\* (a == b).all(dim=1).float().mean().item(), a and b of the same shape;
\* in ten-thousandths, rounded as {:.4f} prints it
RowAccuracy(a, b) ==
    LET n    == Len(b)
        hits == Cardinality({i \in 1..n : a[i] = b[i]})
    IN  (hits * 10000 + (n \div 2)) \div n

\* y_pred[-len(y_train) :]
AccRows(yp, ytr) == TailIdx(Len(yp), Len(ytr))

\* accuracy = (y_pred[-len(y_train) :] == y_train).all(dim=1).float().mean().item()
TrainAccuracy(yh, ytr) ==
    LET y_pred == Threshold(yh)
    IN  RowAccuracy(Slice(y_pred, AccRows(y_pred, ytr)), ytr)

\* y_pred_test[-len(y_test) :]
TestRows(yp, yte) == TailIdx(Len(yp), Len(yte))

\* test_accuracy = torch.eq(y_pred_test[-len(y_test) :], y_test).all(dim=1).float().mean().item()
TestAccuracy(yh, yte) ==
    LET y_pred_test == Threshold(yh)
    IN  RowAccuracy(Slice(y_pred_test, TestRows(y_pred_test, yte)), yte)

\* np.mean(epoch_loss)
Mean(l) == SumOver(l) \div Len(l)

\* ------------------------------------------------------------ the program
\* Names not bound yet: tensors are <<>>, numbers are -1.
NoLinear == [weight |-> <<>>, bias |-> <<>>]

\* No call of the model yet.  A call is recorded with its positional
\* arguments, the parameters of model.linear it ran with and the number of
\* optimizer steps applied before it.
NoCall == [args |-> <<>>, params |-> NoLinear, steps |-> -1]

Unbound ==
    /\ epoch_i = 0
    /\ range_next = 0
    /\ linear = NoLinear
    /\ layers = <<>>
    /\ registered = {}
    /\ opt_params = {}
    /\ opt = InitOpt
    /\ grad = ZeroGrad
    /\ y_hat = <<>>
    /\ loss = -1
    /\ epoch_loss = <<>>
    /\ accuracy = -1
    /\ y_hat_test = <<>>
    /\ test_accuracy = -1
    /\ output = <<>>
    /\ losses = <<>>
    /\ epochs_seen = <<>>
    /\ n_forward = 0
    /\ n_step = 0
    /\ train_call = NoCall
    /\ test_call = NoCall

\* The notebook up to the cell that creates the network: the structure
\* matrices, res and the label split are computed, no model exists yet.
Init ==
    /\ pc = "construct"
    /\ run = 1
    /\ seed \in Seeds
    /\ num_epochs \in 0..MaxEpochs
    /\ \E cx \in Complexes :
          /\ dataset = [nodes |-> cx.nodes, edges |-> cx.edges]
          /\ incidence_1 = IncidenceMatrix(dataset)
          /\ ld = DownLaplacian(incidence_1)
          /\ adjacency = cx.adj
          /\ Linv = Pinv(PlusEye(ld), cx.linv)
    /\ x_1e = Hadamard(adjacency, Linv)
    /\ \E y \in LabelVectors : y_true = OneHot(y)
    /\ y_train = YTrain(y_true)
    /\ y_test = YTest(y_true)
    /\ prev_losses = <<>>
    /\ Unbound

\* mutant: the model is created again, the optimizer object is kept
ConstructKeepsOptimizer ==
    /\ pc = "construct"
    /\ linear' = InitLinear(seed)
    /\ layers' = InitLayers(seed)
    /\ registered' = RegisteredModules
    /\ opt_params' = Parameters(registered')
    /\ grad' = ZeroGrad
    /\ pc' = "enter"
    /\ UNCHANGED <<run, seed, num_epochs, epoch_i, range_next, dataVars, opt,
                   y_hat, loss, epoch_loss, accuracy, y_hat_test,
                   test_accuracy, output, histVars>>

\* model = Dist2Cycle(channels=channels_nodes, n_layers=10)
\* optimizer = torch.optim.Adam(model.parameters(), lr=0.4)
Construct ==
    /\ pc = "construct"
    /\ linear' = InitLinear(seed)
    /\ layers' = InitLayers(seed)
    /\ registered' = RegisteredModules
    /\ opt_params' = Parameters(registered')
    /\ opt' = InitOpt
    /\ grad' = ZeroGrad
    /\ pc' = "enter"
    /\ UNCHANGED <<run, seed, num_epochs, epoch_i, range_next, dataVars, y_hat, loss,
                   epoch_loss, accuracy, y_hat_test, test_accuracy, output,
                   histVars>>

\* mutants: range(1, num_epochs) and range(1, num_epochs + 2)
RangeStopShort(n) == n
RangeStopLong(n) == n + 2

\* the stop of range(1, num_epochs + 1)
RangeStop(n) == n + 1

\* test_interval = 2; num_epochs = 60; the for statement evaluates
\* range(1, num_epochs + 1) and takes a fresh iterator over it
EnterLoop ==
    /\ pc = "enter"
    /\ range_next' = 1
    /\ pc' = "loop"
    /\ UNCHANGED <<run, seed, num_epochs, epoch_i, dataVars, modelVars, opt,
                   grad, y_hat, loss, epoch_loss, accuracy, y_hat_test,
                   test_accuracy, output, histVars>>

\* for epoch_i in range(1, num_epochs + 1): the iterator yields its next
\* value, or is exhausted and the loop ends
LoopHead ==
    /\ pc = "loop"
    /\ IF range_next < RangeStop(num_epochs)
       THEN /\ epoch_i' = range_next
            /\ range_next' = range_next + 1
            /\ epochs_seen' = Append(epochs_seen, range_next)
            /\ pc' = "begin"
       ELSE /\ pc' = "done"
            /\ UNCHANGED <<epoch_i, range_next, epochs_seen>>
    /\ UNCHANGED <<run, seed, num_epochs, dataVars, modelVars, opt, grad,
                   y_hat, loss, epoch_loss, accuracy, y_hat_test,
                   test_accuracy, output, losses, prev_losses, n_forward,
                   n_step, train_call, test_call>>

\* mutant: the epoch begins without optimizer.zero_grad()
EpochBeginKeepsGrad ==
    /\ pc = "begin"
    /\ epoch_loss' = <<>>
    /\ pc' = "forward"
    /\ UNCHANGED <<run, seed, num_epochs, epoch_i, range_next, dataVars, modelVars, opt,
                   grad, y_hat, loss, accuracy, y_hat_test, test_accuracy,
                   output, histVars>>

\* epoch_loss = []; model.train(); optimizer.zero_grad()
EpochBegin ==
    /\ pc = "begin"
    /\ epoch_loss' = <<>>
    /\ grad' = ZeroGrad
    /\ pc' = "forward"
    /\ UNCHANGED <<run, seed, num_epochs, epoch_i, range_next, dataVars, modelVars, opt,
                   y_hat, loss, accuracy, y_hat_test, test_accuracy, output,
                   histVars>>

\* mutant: the second and third argument of the model's calls exchanged
ModelArgsSwapped == <<x_1e, adjacency, Linv>>

\* the argument list of model(x_1e, Linv, adjacency), the same at both calls
ModelArgs == <<x_1e, Linv, adjacency>>

\* model(*args) with the parameters at the time of the call
CallModel(args) == Forward(linear, layers, args[1], args[2], args[3])

\* y_hat = model(x_1e, Linv, adjacency)
ForwardPass ==
    /\ pc = "forward"
    /\ train_call' = [args |-> ModelArgs, params |-> linear, steps |-> n_step]
    /\ y_hat' = CallModel(ModelArgs)
    /\ n_forward' = n_forward + 1
    /\ pc' = "loss"
    /\ UNCHANGED <<run, seed, num_epochs, epoch_i, range_next, dataVars, modelVars, opt,
                   grad, loss, epoch_loss, accuracy, y_hat_test,
                   test_accuracy, output, losses, prev_losses, epochs_seen,
                   n_step, test_call>>

\* loss = binary_cross_entropy_with_logits(...); epoch_loss.append(loss.item())
ComputeLoss ==
    /\ pc = "loss"
    /\ loss' = Loss(y_hat, y_train)
    /\ epoch_loss' = Append(epoch_loss, loss')
    /\ pc' = "backward"
    /\ UNCHANGED <<run, seed, num_epochs, epoch_i, range_next, dataVars, modelVars, opt,
                   grad, y_hat, accuracy, y_hat_test, test_accuracy, output,
                   histVars>>

\* loss.backward()
BackwardPass ==
    /\ pc = "backward"
    /\ grad' = AddGrad(grad, Backward(y_hat, y_train, x_1e))
    /\ pc' = "step"
    /\ UNCHANGED <<run, seed, num_epochs, epoch_i, range_next, dataVars, modelVars, opt,
                   y_hat, loss, epoch_loss, accuracy, y_hat_test,
                   test_accuracy, output, histVars>>

\* optimizer.step(): Adam updates the parameters it was handed; the layers'
\* weights are not among them and keep their values.
OptimizerStep ==
    /\ pc = "step"
    /\ opt' = AdamState(opt, grad)
    /\ linear' = IF ParamsOf("linear") \subseteq opt_params
                 THEN AdamUpdate(linear, opt')
                 ELSE linear
    /\ n_step' = n_step + 1
    /\ pc' = "report"
    /\ UNCHANGED <<run, seed, num_epochs, epoch_i, range_next, dataVars, layers,
                   registered, opt_params, grad, y_hat, loss, epoch_loss,
                   accuracy, y_hat_test, test_accuracy, output, losses,
                   prev_losses, epochs_seen, n_forward, train_call,
                   test_call>>

\* mutant: the test block runs on the epochs after the divisible ones
TestDueOffByOne(e) == e % test_interval = 1

\* if epoch_i % test_interval == 0:
TestDue(e) == e % test_interval = 0

\* y_pred = torch.where(...); accuracy = ...; print(f"Epoch: ..."); and the
\* test that guards the test block
Report ==
    /\ pc = "report"
    /\ accuracy' = TrainAccuracy(y_hat, y_train)
    /\ output' = Append(output, <<"Epoch", epoch_i, Mean(epoch_loss), accuracy'>>)
    /\ losses' = Append(losses, Mean(epoch_loss))
    /\ pc' = IF TestDue(epoch_i) THEN "test" ELSE "loop"
    /\ UNCHANGED <<run, seed, num_epochs, epoch_i, range_next, dataVars, modelVars, opt,
                   grad, y_hat, loss, epoch_loss, y_hat_test, test_accuracy,
                   prev_losses, epochs_seen, n_forward, n_step, train_call,
                   test_call>>

\* mutant: the test block also clears the gradients
TestEvalClearsGrad ==
    /\ pc = "test"
    /\ test_call' = [args |-> ModelArgs, params |-> linear, steps |-> n_step]
    /\ y_hat_test' = CallModel(ModelArgs)
    /\ test_accuracy' = TestAccuracy(y_hat_test', y_test)
    /\ output' = Append(output, <<"Test_acc", test_accuracy'>>)
    /\ n_forward' = n_forward + 1
    /\ grad' = ZeroGrad
    /\ pc' = "loop"
    /\ UNCHANGED <<run, seed, num_epochs, epoch_i, range_next, dataVars, modelVars, opt,
                   y_hat, loss, epoch_loss, accuracy, losses,
                   prev_losses, epochs_seen, n_step, train_call>>

\* mutant: the test block thresholds the output of the training forward pass
\* instead of calling the model again
TestEvalReusesOutput ==
    /\ pc = "test"
    /\ y_hat_test' = y_hat
    /\ test_accuracy' = TestAccuracy(y_hat_test', y_test)
    /\ output' = Append(output, <<"Test_acc", test_accuracy'>>)
    /\ n_forward' = n_forward + 1
    /\ pc' = "loop"
    /\ UNCHANGED <<run, seed, num_epochs, epoch_i, range_next, dataVars, modelVars, opt,
                   grad, y_hat, loss, epoch_loss, accuracy, losses,
                   prev_losses, epochs_seen, n_step, train_call, test_call>>

\* with torch.no_grad(): y_hat_test = model(x_1e, Linv, adjacency); ...;
\* print(f"Test_acc: ...")
TestEval ==
    /\ pc = "test"
    /\ test_call' = [args |-> ModelArgs, params |-> linear, steps |-> n_step]
    /\ y_hat_test' = CallModel(ModelArgs)
    /\ test_accuracy' = TestAccuracy(y_hat_test', y_test)
    /\ output' = Append(output, <<"Test_acc", test_accuracy'>>)
    /\ n_forward' = n_forward + 1
    /\ pc' = "loop"
    /\ UNCHANGED <<run, seed, num_epochs, epoch_i, range_next, dataVars, modelVars, opt,
                   grad, y_hat, loss, epoch_loss, accuracy, losses,
                   prev_losses, epochs_seen, n_step, train_call>>

\* mutant: the failing call sits in a try block whose handler goes on to the
\* next epoch
RaiseCaught ==
    /\ pc \in {"forward", "loss", "backward", "step"}
    /\ pc' = "loop"
    /\ UNCHANGED <<run, seed, num_epochs, epoch_i, range_next, dataVars, modelVars, opt,
                   grad, y_hat, loss, epoch_loss, accuracy, y_hat_test,
                   test_accuracy, output, histVars>>

\* A library call of the training step raises; nothing catches it and the
\* cell ends.
Raise ==
    /\ pc \in {"forward", "loss", "backward", "step"}
    /\ pc' = "failed"
    /\ UNCHANGED <<run, seed, num_epochs, epoch_i, range_next, dataVars, modelVars, opt,
                   grad, y_hat, loss, epoch_loss, accuracy, y_hat_test,
                   test_accuracy, output, histVars>>

\* The model cell and the training cell are executed again in the same
\* kernel, the generator reset to the state it had the first time.  Every
\* name keeps its value until a statement rebinds it; the training cell's
\* printed output starts empty again.
Rerun ==
    /\ pc = "done"
    /\ run + 1 \in Executions
    /\ run' = run + 1
    /\ pc' = "construct"
    /\ output' = <<>>
    /\ prev_losses' = losses
    /\ losses' = <<>>
    /\ epochs_seen' = <<>>
    /\ n_forward' = 0
    /\ n_step' = 0
    /\ train_call' = NoCall
    /\ test_call' = NoCall
    /\ UNCHANGED <<seed, num_epochs, epoch_i, range_next, dataVars, modelVars,
                   opt, grad, y_hat, loss, epoch_loss, accuracy, y_hat_test,
                   test_accuracy>>

Next ==
    \/ Construct
    \/ EnterLoop
    \/ LoopHead
    \/ EpochBegin
    \/ ForwardPass
    \/ ComputeLoss
    \/ BackwardPass
    \/ OptimizerStep
    \/ Report
    \/ TestEval
    \/ Raise
    \/ Rerun

Spec == Init /\ [][Next]_vars

\* The cell is one thread of control that always takes its next statement.
FairSpec == Spec /\ WF_vars(Next)

\* Under FairSpec every execution reaches the end of the loop or a failure.
RunEnds == (pc = "construct") ~> (pc \in {"done", "failed"})

\* ----------------------------------------------------- the recorded run
\* The output the notebook stores for the training cell, the run with the
\* benchmark complex, n_layers = 10, lr = 0.4 and num_epochs = 60.  One pair
\* per line "Epoch: n loss: l Train_acc: a": <<l, a>>, in ten-thousandths.
RecordedEpochLines ==
    <<
      <<7231, 6000>>, <<6989, 5667>>, <<6879, 5667>>, <<6737, 5667>>,
      <<6564, 5667>>, <<6434, 5667>>, <<6362, 6000>>, <<6290, 4333>>,
      <<6199, 6000>>, <<6117, 6000>>, <<6057, 6000>>, <<6011, 5667>>,
      <<5964, 6000>>, <<5911, 6000>>, <<5855, 6000>>, <<5805, 6000>>,
      <<5764, 4000>>, <<5730, 4000>>, <<5696, 4000>>, <<5660, 4000>>,
      <<5624, 4000>>, <<5593, 4000>>, <<5567, 4000>>, <<5544, 4000>>,
      <<5520, 4000>>, <<5496, 4000>>, <<5472, 4000>>, <<5451, 4000>>,
      <<5432, 4000>>, <<5414, 4000>>, <<5397, 4333>>, <<5379, 4333>>,
      <<5362, 4333>>, <<5346, 4333>>, <<5333, 4333>>, <<5320, 4333>>,
      <<5308, 4333>>, <<5295, 4333>>, <<5284, 4333>>, <<5273, 4333>>,
      <<5264, 4333>>, <<5255, 4333>>, <<5246, 4333>>, <<5238, 4333>>,
      <<5230, 4333>>, <<5223, 4333>>, <<5216, 4333>>, <<5210, 4333>>,
      <<5204, 4333>>, <<5198, 4333>>, <<5193, 4333>>, <<5188, 4333>>,
      <<5183, 4333>>, <<5178, 4333>>, <<5174, 4333>>, <<5170, 4333>>,
      <<5166, 4333>>, <<5163, 4333>>, <<5159, 4333>>, <<5156, 4333>>
    >>

\* The stored lines "Test_acc: a", in ten-thousandths.
RecordedTestAcc ==
    <<
      2500, 2500, 0, 0, 0, 0, 0, 7500, 7500, 7500, 7500, 7500, 7500, 7500,
      7500, 7500, 7500, 7500, 7500, 7500, 7500, 7500, 7500, 7500, 7500,
      7500, 7500, 7500, 7500, 7500
    >>

\* mutant: the losses read from the column of the train accuracy
RecordedLossesFromAccuracy ==
    [n \in 1..Len(RecordedEpochLines) |-> RecordedEpochLines[n][2]]

\* the loss column of the stored output
RecordedLosses ==
    [n \in 1..Len(RecordedEpochLines) |-> RecordedEpochLines[n][1]]

\* The training cell is about to run with the stored run's num_epochs; the
\* replay follows the console only, the tensors play no part in it.
RecordedInit ==
    /\ pc = "enter"
    /\ run = 1
    /\ seed = 1
    /\ num_epochs = Len(RecordedEpochLines)
    /\ dataset = [nodes |-> NumEdges + 1, edges |-> PathEdges]
    /\ incidence_1 = IncidenceMatrix(dataset)
    /\ ld = DownLaplacian(incidence_1)
    /\ adjacency = AdjPath
    /\ Linv = Pinv(PlusEye(ld), LinvA)
    /\ x_1e = Hadamard(adjacency, Linv)
    /\ y_true = OneHot([i \in 1..NumEdges |-> i % 2])
    /\ y_train = YTrain(y_true)
    /\ y_test = YTest(y_true)
    /\ prev_losses = <<>>
    /\ Unbound

\* the body of epoch epoch_i of the stored run, down to its printed line
RecordedEpoch ==
    /\ pc = "begin"
    /\ loss' = RecordedLosses[epoch_i]
    /\ epoch_loss' = <<loss'>>
    /\ accuracy' = RecordedEpochLines[epoch_i][2]
    /\ output' = Append(output, <<"Epoch", epoch_i, Mean(epoch_loss'), accuracy'>>)
    /\ losses' = Append(losses, Mean(epoch_loss'))
    /\ n_forward' = n_forward + 1
    /\ n_step' = n_step + 1
    /\ pc' = IF TestDue(epoch_i) THEN "test" ELSE "loop"
    /\ UNCHANGED <<run, seed, num_epochs, epoch_i, range_next, dataVars, modelVars, opt,
                   grad, y_hat, y_hat_test, test_accuracy, prev_losses,
                   epochs_seen, train_call, test_call>>

\* the test block of epoch epoch_i of the stored run
RecordedTest ==
    /\ pc = "test"
    /\ test_accuracy' = RecordedTestAcc[epoch_i \div test_interval]
    /\ output' = Append(output, <<"Test_acc", test_accuracy'>>)
    /\ n_forward' = n_forward + 1
    /\ pc' = "loop"
    /\ UNCHANGED <<run, seed, num_epochs, epoch_i, range_next, dataVars, modelVars, opt,
                   grad, y_hat, loss, epoch_loss, accuracy, y_hat_test,
                   losses, prev_losses, epochs_seen, n_step, train_call,
                   test_call>>

RecordedNext ==
    \/ EnterLoop
    \/ LoopHead
    \/ RecordedEpoch
    \/ RecordedTest

\* The stored run: the loop of the training cell printing the stored lines.
RecordedRun == RecordedInit /\ [][RecordedNext]_vars

\* ================================================================= claims

\* ---- C1 -----------------------------------------------------------------
\* The stack the claim describes: the first layer consumes the input
\* features, every further layer the previous layer's output.
RECURSIVE StackOutput(_, _, _, _, _)
StackOutput(lys, l, x, linv, adj) ==
    IF l = 0 THEN x
    ELSE Dist2CycleLayer(lys[l], StackOutput(lys, l - 1, x, linv, adj), linv, adj)

StackedForward(lin, lys, x, linv, adj) ==
    Softmax(Linear(lin, StackOutput(lys, Len(lys), x, linv, adj)))

\* C1: with n_layers >= 1, the tensor forward returns is the projection and
\* softmax of the last layer's output, the layers being chained from x_1e.
C1_ForwardIsStackOfLayers ==
    (pc = "loss" /\ Len(layers) >= 1)
        => y_hat = StackedForward(linear, layers, x_1e, Linv, adjacency)

\* ---- C2 -----------------------------------------------------------------
AllWeights == ParamsOf("linear") \cup ParamsOf("layers")

\* C2: once model and optimizer exist, every weight tensor of the model,
\* the layers' weights included, is among the parameters the optimizer was
\* handed (and so is updated by optimizer.step()).
C2_EveryWeightIsOptimized ==
    (pc # "construct") => AllWeights \subseteq opt_params

\* ---- C3 -----------------------------------------------------------------
\* C3: the train accuracy of an epoch is the accuracy of the thresholded
\* output on the rows the loss is computed on, the rows y_train labels.
C3_TrainAccuracyOnTrainRows ==
    (pc \in {"test", "loop", "done"} /\ accuracy # -1)
        => accuracy = RowAccuracy(Slice(Threshold(y_hat), LossRows(y_hat, y_train)),
                                  y_train)

\* ---- C4 -----------------------------------------------------------------
UpTo(n) == [i \in 1..n |-> i]

\* C4: epoch_i takes the values 1, 2, ... in increasing order, each once,
\* never beyond num_epochs (in the loop body it is the number of the
\* iteration); a run that does not fail cannot stop before the
\* loop is exhausted, and when it is, exactly num_epochs iterations have
\* run, whatever the losses and accuracies were.
C4_ExactlyNumEpochsIterations ==
    /\ epochs_seen = UpTo(Len(epochs_seen))
    /\ Len(epochs_seen) <= num_epochs
    /\ (pc \in {"begin", "forward", "loss", "backward", "step", "report", "test"})
          => epoch_i = Len(epochs_seen)
    /\ (pc \notin {"done", "failed"}) => ENABLED Next
    /\ (pc = "done") => (epochs_seen = UpTo(num_epochs) /\ n_step = num_epochs)

C4_Witness ==
    pc = "done" /\ num_epochs = MaxEpochs /\ Len(epochs_seen) = MaxEpochs
        /\ losses[1] # losses[MaxEpochs]

\* ---- C5 -----------------------------------------------------------------
\* what is printed for epochs 1..n: the kind of each line, and the epoch of
\* an Epoch line
RECURSIVE ExpectedLines(_)
ExpectedLines(n) ==
    IF n = 0 THEN <<>>
    ELSE ExpectedLines(n - 1) \o <<<<"Epoch", n>>>>
            \o (IF n % test_interval = 0 THEN <<<<"Test_acc", 0>>>> ELSE <<>>)

LineKinds(out) ==
    [i \in 1..Len(out) |->
        IF out[i][1] = "Epoch" THEN <<"Epoch", out[i][2]>> ELSE <<"Test_acc", 0>>]

IsPrefix(s, t) == Len(s) <= Len(t) /\ \A i \in 1..Len(s) : s[i] = t[i]

CountKind(out, k) == Cardinality({i \in 1..Len(out) : out[i][1] = k})

\* C5: the console holds, in order, one Epoch line per epoch and right after
\* it one Test_acc line exactly when the epoch is divisible by
\* test_interval; a complete run prints num_epochs Epoch lines and
\* num_epochs \div test_interval Test_acc lines.
C5_ConsoleOutput ==
    /\ IsPrefix(LineKinds(output), ExpectedLines(num_epochs))
    /\ \A i \in 1..Len(output) :
          output[i][1] = "Test_acc"
              => /\ i > 1
                 /\ output[i - 1][1] = "Epoch"
                 /\ output[i - 1][2] % test_interval = 0
    /\ (pc = "done") =>
          /\ LineKinds(output) = ExpectedLines(num_epochs)
          /\ CountKind(output, "Epoch") = num_epochs
          /\ CountKind(output, "Test_acc") = num_epochs \div test_interval

C5_Witness ==
    pc = "done" /\ num_epochs = MaxEpochs /\ CountKind(output, "Test_acc") >= 1
        /\ output[Len(output)][1] = "Epoch"

\* ---- C6 -----------------------------------------------------------------
\* C6: with num_epochs = 0 the loop does nothing: no forward pass, no
\* optimizer step, nothing printed, every parameter as initialized.
C6_ZeroEpochsChangeNothing ==
    (num_epochs = 0 /\ pc \notin {"construct"})
        => /\ n_forward = 0
           /\ n_step = 0
           /\ output = <<>>
           /\ linear = InitLinear(seed)
           /\ layers = InitLayers(seed)
           /\ opt = InitOpt

C6_Witness == num_epochs = 0 /\ pc = "done" /\ run = 1

C8_DisjointImmutableSplit ==
    /\ [](/\ TrainIdx(Len(y_true)) \cap TestIdx(Len(y_true)) = {}
          /\ y_train = Slice(y_true, TrainIdx(Len(y_true)))
          /\ y_test = Slice(y_true, TestIdx(Len(y_true))))
    /\ [][y_train' = y_train /\ y_test' = y_test /\ y_true' = y_true]_vars

C8_Witness ==
    pc = "done" /\ n_step >= 2 /\ test_accuracy # -1 /\ Len(y_train) = TrainLen
        /\ Len(y_test) = TestLen

\* ---- C9 -----------------------------------------------------------------
\* C9: y_test holds the labels of the first rows of y_true (rows 0..3).
C9_TestLabelsAreFirstRows ==
    y_test = Slice(y_true, HeadIdx(Len(y_true), TestLen))

\* ---- C10 ----------------------------------------------------------------
\* C10: the test block leaves the parameters, the stored gradients and the
\* optimizer state as they were.
C10_TestBlockFrame ==
    [][(pc = "test") => UNCHANGED <<linear, layers, grad, opt, opt_params>>]_vars

\* a training step taken after a test evaluation
C10_Witness ==
    pc = "report" /\ test_accuracy # -1 /\ n_step >= 3 /\ linear # InitLinear(seed)


\* ---- C11 ----------------------------------------------------------------
\* the Epoch lines of out that belong to epoch e or a later one
LinesFrom(out, e) == {i \in 1..Len(out) : out[i][1] = "Epoch" /\ out[i][2] >= e}

\* C11: a failure raised in epoch k ends the run: once failed no statement
\* runs any more (no handler, no retry, no further parameter update), the
\* console holds the lines of the epochs before k and none of epoch k or a
\* later one, and exactly k - 1 steps were applied.  Conversely an epoch
\* whose line is missing is never followed by another epoch: between epochs
\* every epoch begun so far has its line and its step.
C11_FailureEndsRun ==
    /\ pc = "failed"
          => /\ ~ ENABLED Next
             /\ epoch_i = Len(epochs_seen)
             /\ LinesFrom(output, epoch_i) = {}
             /\ CountKind(output, "Epoch") = epoch_i - 1
             /\ n_step = epoch_i - 1
    /\ pc \in {"loop", "done"}
          => /\ CountKind(output, "Epoch") = Len(epochs_seen)
             /\ n_step = Len(epochs_seen)

\* a failure in the second epoch, after the first epoch printed its line
C11_Witness ==
    pc = "failed" /\ epoch_i = 2 /\ CountKind(output, "Epoch") = 1 /\ n_step = 1


\* ---- C12 ----------------------------------------------------------------
\* every entry of p is a probability and the two entries of each row sum to 1
IsDistribution(p) ==
    \A i \in 1..Len(p) :
        /\ Len(p[i]) = 2
        /\ \A c \in 1..2 : p[i][c] >= 0 /\ p[i][c] <= Scale
        /\ p[i][1] + p[i][2] = Scale

\* the tensors at hand that have the shape of a model input
ForwardInputs == {x_1e, adjacency, Linv}

\* C12: every tensor Dist2Cycle.forward returns has non-negative entries and
\* rows that sum to 1: the two outputs the program keeps, and the output for
\* any input tensor under the parameters of any reachable state.
C12_OutputRowsAreDistributions ==
    /\ IsDistribution(y_hat)
    /\ IsDistribution(y_hat_test)
    /\ linear # NoLinear
          => \A x \in ForwardInputs :
                 LET p == Forward(linear, layers, x, Linv, adjacency)
                 IN  Len(p) = Rows(x) /\ IsDistribution(p)

\* an output with a saturated row (probabilities 0 and 1) and a row with
\* both probabilities strictly inside
C12_Witness ==
    /\ pc = "loss"
    /\ Len(y_hat) = NumEdges
    /\ \E i \in 1..Len(y_hat) : y_hat[i][1] \in {0, Scale}
    /\ \E i \in 1..Len(y_hat) : y_hat[i][1] \notin {0, Half, Scale}


\* ---- C13 ----------------------------------------------------------------
\* m is square of dimension n
SquareOf(m, n) == Rows(m) = n /\ \A i \in 1..Rows(m) : Len(m[i]) = n

CallsMade == {c \in {train_call, test_call} : c # NoCall}

\* C14 as stated: res is the only structural tensor a call of the model
\* receives; no call passes the adjacency or the pseudo-inverse.
C14_ResIsOnlyStructuralInput ==
    \A c \in CallsMade :
        /\ c.args[1] = Hadamard(adjacency, Linv)
        /\ \A k \in 2..Len(c.args) : c.args[k] \notin {adjacency, Linv}

\* C14, amended: every call of the model, in the training step and in the
\* test block alike, passes res = adjacency * Linv as the feature tensor and
\* with it the pseudo-inverse and the adjacency as separate second and third
\* arguments.
C14_CallsPassResLinvAdjacency ==
    \A c \in CallsMade :
        c.args = <<Hadamard(adjacency, Linv), Linv, adjacency>>

\* both calls were made, with three tensors that differ from one another
C14_Witness ==
    /\ train_call # NoCall
    /\ test_call # NoCall
    /\ Linv # adjacency
    /\ x_1e # Linv
    /\ x_1e # adjacency


EpochOrder ==
    /\ pc = "begin" => pc' = "forward"
    /\ pc = "forward" => pc' \in {"loss", "failed"}
    /\ pc = "loss" => pc' \in {"backward", "failed"}
    /\ pc = "backward" => pc' \in {"step", "failed"}
    /\ pc = "step" => pc' \in {"report", "failed"}

\* C16: an epoch runs zero_grad, forward pass, loss, backward, optimizer
\* step in this order and steps once.  The gradients are zero from zero_grad
\* up to backward, so the gradient the step of epoch n applies is the
\* gradient of the loss of epoch n alone; n - 1 steps precede the step of
\* epoch n, and the finished loop has applied num_epochs steps.
C16_OneStepPerEpochFromOwnLoss ==
    /\ [](/\ pc \in {"forward", "loss", "backward"} => grad = ZeroGrad
          /\ pc \in {"forward", "loss", "backward", "step"} => n_step = epoch_i - 1
          /\ pc \in {"loss", "backward", "step"}
                => /\ train_call.steps = epoch_i - 1
                   /\ train_call.params = linear
                   /\ y_hat = CallModel(train_call.args)
          /\ pc \in {"backward", "step"} => loss = Loss(y_hat, y_train)
          /\ pc = "step" => grad = Backward(y_hat, y_train, x_1e)
          /\ pc \in {"report", "test"} => n_step = epoch_i
          /\ pc \notin {"construct", "failed"} => opt.step = n_step
          /\ pc = "done" => n_step = num_epochs)
    /\ [][/\ EpochOrder
          /\ pc = "step" /\ pc' = "report"
                => /\ opt' = AdamState(opt, Backward(y_hat, y_train, x_1e))
                   /\ n_step' = n_step + 1]_vars

\* the step of the third epoch is due, with a gradient to apply and the
\* gradients of two earlier epochs already applied
C16_Witness ==
    pc = "step" /\ epoch_i = 3 /\ n_step = 2 /\ grad # ZeroGrad


\* ---- C17 ----------------------------------------------------------------
\* the line printed last
LastLine == output[Len(output)]

\* the output of the model for the program's inputs under the parameters p
OutputUnder(p) == Forward(p, layers, x_1e, Linv, adjacency)

\* C17: the Epoch line of epoch n is printed after the step of epoch n, and
\* its loss and train accuracy are those of the output computed before that
\* step, under the parameters after n - 1 steps; the Test_acc line that
\* follows it is the accuracy of a forward pass made after the step, under
\* the parameters after n steps, which are the current ones.
C17_AccuraciesFromDifferentParameters ==
    /\ pc \in {"test", "loop", "done"} /\ output # <<>> /\ LastLine[1] = "Epoch"
          => /\ LastLine[2] = epoch_i
             /\ n_step = epoch_i
             /\ train_call.steps = epoch_i - 1
             /\ LastLine[3] = Loss(OutputUnder(train_call.params), y_train)
             /\ LastLine[4] = TrainAccuracy(OutputUnder(train_call.params), y_train)
    /\ pc \in {"loop", "done"} /\ output # <<>> /\ LastLine[1] = "Test_acc"
          => /\ Len(output) >= 2
             /\ output[Len(output) - 1][1] = "Epoch"
             /\ output[Len(output) - 1][2] = epoch_i
             /\ n_step = epoch_i
             /\ train_call.steps = epoch_i - 1
             /\ test_call.steps = epoch_i
             /\ test_call.params = linear
             /\ LastLine[2] = TestAccuracy(OutputUnder(linear), y_test)

\* after the test block of an epoch whose step changed the parameters: the
\* two accuracies of the epoch come from two different parameter states
C17_Witness ==
    /\ pc = "loop"
    /\ output # <<>>
    /\ LastLine[1] = "Test_acc"
    /\ train_call.params # test_call.params
    /\ OutputUnder(train_call.params) # OutputUnder(test_call.params)

=============================================================================
